---------------------------- MODULE Spec2Model ----------------------------
(***************************************************************************)
(* The error model of the obj loader (src/src/error.rs): LoadErrorKind,    *)
(* LoadError, ObjError, the From conversions, the Display and Error impls  *)
(* and the make_error! shorthand, driven by a client that constructs,      *)
(* converts, renders, compares and inspects error values.                  *)
(*                                                                         *)
(* Text is a sequence of one-character strings, so that concatenation,     *)
(* prefixes and separators are what the formulas compute with.             *)
(* Option<T> is a sequence of length 0 (None) or 1 (Some).                 *)
(***************************************************************************)
EXTENDS Naturals, Sequences, FiniteSets

\* Longest generated message (the fixed messages below are longer).
MaxLen == 2
\* Number of steps in the body of the enclosing loader operation.
OpSteps == 2
\* Cap on the length of a walk along the cause chain.
MaxChain == 3

None == <<>>
Some(x) == <<x>>

--------------------------------------------------------------------------
(* LoadErrorKind: the closed enumeration, in declaration order.            *)
LoadErrorKind ==
    {"UnexpectedStatement", "WrongNumberOfArguments", "WrongTypeOfArguments",
     "UntriangulatedModel", "InsufficientData"}

(* `message: &'static str`: texts a raise site can supply.  The generated  *)
(* ones range over the characters of the separator ": "; the fixed ones    *)
(* are ordinary raise-site texts.                                          *)
MsgChars == {":", " "}

MsgFace == <<"f", "a", "c", "e">>

MsgVertex == <<"v", "e", "r", "t", "e", "x">>

MsgComputeNormals ==
    <<"c", "o", "m", "p", "u", "t", "e", "_", "n", "o", "r", "m", "a", "l", "s", " ",
      "r", "e", "q", "u", "i", "r", "e", "s", " ", "t", "r", "i", "a", "n", "g", "l",
      "e", "s">>

FixedMessages == {MsgFace, MsgVertex, MsgComputeNormals}

Messages == FixedMessages \cup UNION {[1..n -> MsgChars] : n \in 0..MaxLen}

(* LoadError::new *)
LoadErrorNew(kind, message) == [kind |-> kind, message |-> message]

LoadErrors == {LoadErrorNew(k, m) : k \in LoadErrorKind, m \in Messages}

(* Faulty variant: ordering derived as well. *)
LoadErrorDerivesOrd == {"PartialEq", "Eq", "PartialOrd", "Ord", "Clone", "Debug"}

(* The traits derived for LoadError, and the comparisons they provide:     *)
(* PartialEq gives eq and ne, PartialOrd would give partial_cmp.           *)
LoadErrorDerives == {"PartialEq", "Eq", "Clone", "Debug"}

TraitOfOp(op) ==
    CASE op \in {"eq", "ne"} -> "PartialEq"
      [] op = "partial_cmp" -> "PartialOrd"

LoadErrorCmpOps == {op \in {"eq", "ne", "partial_cmp"} : TraitOfOp(op) \in LoadErrorDerives}

(* Faulty variant: equality that looks at the kind only. *)
LoadErrorEqKindOnly(x, y) == x.kind = y.kind

(* #[derive(PartialEq)] on LoadError: field by field, in order. *)
LoadErrorEq(x, y) == x.kind = y.kind /\ x.message = y.message

CmpResult(op, x, y) ==
    CASE op = "eq" -> LoadErrorEq(x, y)
      [] op = "ne" -> ~LoadErrorEq(x, y)

--------------------------------------------------------------------------
(* The category phrases of impl fmt::Display for LoadError.                *)
PhraseUnexpectedStatement ==
    <<"M", "e", "t", " ", "u", "n", "e", "x", "p", "e", "c", "t", "e", "d", " ", "s",
      "t", "a", "t", "e", "m", "e", "n", "t">>

PhraseWrongNumberOfArguments ==
    <<"R", "e", "c", "e", "i", "v", "e", "d", " ", "w", "r", "o", "n", "g", " ", "n",
      "u", "m", "b", "e", "r", " ", "o", "f", " ", "a", "r", "g", "u", "m", "e", "n",
      "t", "s">>

PhraseWrongTypeOfArguments ==
    <<"R", "e", "c", "e", "i", "v", "e", "d", " ", "u", "n", "e", "x", "p", "e", "c",
      "t", "e", "d", " ", "t", "y", "p", "e", " ", "o", "f", " ", "a", "r", "g", "u",
      "m", "e", "n", "t", "s">>

PhraseUntriangulatedModel ==
    <<"M", "o", "d", "e", "l", " ", "s", "h", "o", "u", "l", "d", " ", "b", "e", " ",
      "t", "r", "i", "a", "n", "g", "u", "l", "a", "t", "e", "d", " ", "f", "i", "r",
      "s", "t", " ", "t", "o", " ", "b", "e", " ", "l", "o", "a", "d", "e", "d", " ",
      "p", "r", "o", "p", "e", "r", "l", "y">>

PhraseInsufficientData ==
    <<"M", "o", "d", "e", "l", " ", "c", "a", "n", "n", "o", "t", " ", "b", "e", " ",
      "t", "r", "a", "n", "s", "f", "o", "r", "m", "e", "d", " ", "i", "n", "t", "o",
      " ", "r", "e", "q", "u", "e", "s", "t", "e", "d", " ", "f", "o", "r", "m">>

(* Faulty variant: the arm of WrongTypeOfArguments repeats the phrase above it. *)
KindMsgRepeated(kind) ==
    CASE kind = "UnexpectedStatement" -> PhraseUnexpectedStatement
      [] kind = "WrongNumberOfArguments" -> PhraseWrongNumberOfArguments
      [] kind = "WrongTypeOfArguments" -> PhraseWrongNumberOfArguments
      [] kind = "UntriangulatedModel" -> PhraseUntriangulatedModel
      [] kind = "InsufficientData" -> PhraseInsufficientData

(* let msg = match self.kind { ... } *)
KindMsg(kind) ==
    CASE kind = "UnexpectedStatement" -> PhraseUnexpectedStatement
      [] kind = "WrongNumberOfArguments" -> PhraseWrongNumberOfArguments
      [] kind = "WrongTypeOfArguments" -> PhraseWrongTypeOfArguments
      [] kind = "UntriangulatedModel" -> PhraseUntriangulatedModel
      [] kind = "InsufficientData" -> PhraseInsufficientData

(* Faulty variant: the two arguments of write! in the other order. *)
LoadErrorFmtSwapped(le) == le.message \o <<":", " ">> \o KindMsg(le.kind)

(* write!(fmt, "{}: {}", msg, self.message) *)
LoadErrorFmt(le) == KindMsg(le.kind) \o <<":", " ">> \o le.message

(* Faulty variant: a cause() that hands back the error itself. *)
LoadErrorCauseSelf(le) == Some(le)

(* impl Error for LoadError {}: the provided cause() returns None. *)
LoadErrorCause(le) == None

--------------------------------------------------------------------------
(* The foreign causes.  Each is given by its type, the text its own        *)
(* Display writes and what its own cause() returns.  An io::Error is an    *)
(* OS or simple error (no cause) or a custom one, which renders and        *)
(* reports the cause of the error it carries.                              *)
InnerCause ==
    [type |-> "other", text |-> <<"s", "h", "o", "r", "t", " ", "r", "e", "a", "d">>, source |-> None]

IoErrors ==
    {[type |-> "io::Error", text |-> <<"e", "n", "t", "i", "t", "y", " ", "n", "o", "t", " ", "f", "o", "u", "n", "d">>, source |-> None],
     [type |-> "io::Error", text |-> <<"u", "n", "e", "x", "p", "e", "c", "t", "e", "d", " ", "e", "n", "d", " ", "o",
      "f", " ", "f", "i", "l", "e">>,
      source |-> None],
     [type |-> "io::Error", text |-> <<"d", "e", "c", "o", "d", "e", " ", "f", "a", "i", "l", "e", "d">>,
      source |-> Some(InnerCause)]}

ParseIntErrors ==
    {[type |-> "ParseIntError",
      text |-> <<"c", "a", "n", "n", "o", "t", " ", "p", "a", "r", "s", "e", " ", "i", "n", "t",
      "e", "g", "e", "r", " ", "f", "r", "o", "m", " ", "e", "m", "p", "t", "y", " ",
      "s", "t", "r", "i", "n", "g">>,
      source |-> None],
     [type |-> "ParseIntError", text |-> <<"i", "n", "v", "a", "l", "i", "d", " ", "d", "i", "g", "i", "t", " ", "f", "o",
      "u", "n", "d", " ", "i", "n", " ", "s", "t", "r", "i", "n", "g">>,
      source |-> None]}

ParseFloatErrors ==
    {[type |-> "ParseFloatError",
      text |-> <<"c", "a", "n", "n", "o", "t", " ", "p", "a", "r", "s", "e", " ", "f", "l", "o",
      "a", "t", " ", "f", "r", "o", "m", " ", "e", "m", "p", "t", "y", " ", "s", "t",
      "r", "i", "n", "g">>,
      source |-> None],
     [type |-> "ParseFloatError", text |-> <<"i", "n", "v", "a", "l", "i", "d", " ", "f", "l", "o", "a", "t", " ", "l", "i",
      "t", "e", "r", "a", "l">>,
      source |-> None]}

(* &dyn Error: dispatch on the dynamic type of the value. *)
IsLoadError(x) == DOMAIN x = {"kind", "message"}

TypeOf(x) == IF IsLoadError(x) THEN "LoadError" ELSE x.type

DynFmt(x) == IF IsLoadError(x) THEN LoadErrorFmt(x) ELSE x.text

DynCause(x) == IF IsLoadError(x) THEN LoadErrorCause(x) ELSE x.source

--------------------------------------------------------------------------
(* enum ObjError { Io(io::Error), ParseInt(ParseIntError),                 *)
(*                 ParseFloat(ParseFloatError), Load(LoadError) }          *)
ObjErrorVariants == {"Io", "ParseInt", "ParseFloat", "Load"}

VariantPayloadType(v) ==
    CASE v = "Io" -> "io::Error"
      [] v = "ParseInt" -> "ParseIntError"
      [] v = "ParseFloat" -> "ParseFloatError"
      [] v = "Load" -> "LoadError"

(* Faulty variant: the conversion keeps the text of the cause, not the cause. *)
implmntStringified(name, err) == [tag |-> name, payload |-> DynFmt(err)]

(* macro implmnt: fn from(err) -> Self { ObjError::$name(err) } *)
implmnt(name, err) == [tag |-> name, payload |-> err]

(* implmnt!(Io, io::Error) ... implmnt!(Load, LoadError) *)
FromIoError(e) == implmnt("Io", e)

FromParseIntError(e) == implmnt("ParseInt", e)

(* Faulty variant: the invocation for ParseFloatError names the variant ParseInt. *)
FromParseFloatErrorAsInt(e) == implmnt("ParseInt", e)

FromParseFloatError(e) == implmnt("ParseFloat", e)

FromLoadError(e) == implmnt("Load", e)

(* Faulty variant: Display that names the variant before the text of the cause. *)
ObjErrorFmtPrefixed(e) == <<e.tag, ":", " ">> \o DynFmt(e.payload)

(* impl fmt::Display for ObjError *)
ObjErrorFmt(e) ==
    CASE e.tag = "Io" -> DynFmt(e.payload)
      [] e.tag = "ParseInt" -> DynFmt(e.payload)
      [] e.tag = "ParseFloat" -> DynFmt(e.payload)
      [] e.tag = "Load" -> LoadErrorFmt(e.payload)

(* Faulty variant: no cause reported for Load, whose LoadError has none itself. *)
ObjErrorCauseLoadNone(e) == IF e.tag = "Load" THEN None ELSE Some(e.payload)

(* impl Error for ObjError: fn cause(&self) *)
ObjErrorCause(e) ==
    CASE e.tag = "Io" -> Some(e.payload)
      [] e.tag = "ParseInt" -> Some(e.payload)
      [] e.tag = "ParseFloat" -> Some(e.payload)
      [] e.tag = "Load" -> Some(e.payload)

--------------------------------------------------------------------------
VARIABLES
    a,          \* Option<LoadError>: the value built by LoadError::new
    b,          \* Option<LoadError>: a second value, to compare with a
    cmpOut,     \* Option of the last comparison of a and b: [op, res]
    textA,      \* Option<text>: the last rendering of a
    prevTextA,  \* Option<text>: the rendering of a before the last one
    textB,      \* Option<text>: the last rendering of b
    orig,       \* Option: the cause handed to From
    err,        \* Option<ObjError>: what From returned
    textE,      \* Option<text>: the last rendering of err
    got,        \* Option of what err.cause() returned (itself an Option)
    chain,      \* the causes visited so far by a walk from err
    pc,         \* the enclosing loader operation: idle, running, returned
    stepsDone,  \* body steps the enclosing operation has executed
    raised,     \* Option: the kind, message and position of the make_error! reached
    result      \* Option<ObjResult>: what the enclosing operation returned

vars == <<a, b, cmpOut, textA, prevTextA, textB, orig, err, textE, got, chain,
          pc, stepsDone, raised, result>>

cmpVars == <<b, cmpOut, textB>>
fmtVars == <<textA, prevTextA>>
errVars == <<orig, err, textE, got, chain>>
opVars == <<pc, stepsDone, raised, result>>

Init ==
    /\ a = None /\ b = None /\ cmpOut = None
    /\ textA = None /\ prevTextA = None /\ textB = None
    /\ orig = None /\ err = None /\ textE = None /\ got = None
    /\ chain = <<>>
    /\ pc = "idle" /\ stepsDone = 0 /\ raised = None /\ result = None

(* The client works on one thing at a time: a pair of LoadErrors to        *)
(* compare, a cause to convert and inspect, or a call of a loader          *)
(* operation.                                                              *)
Fresh == a = None /\ orig = None /\ pc = "idle"

(* let a = LoadError::new(kind, message) *)
NewA ==
    /\ Fresh
    /\ \E k \in LoadErrorKind, m \in Messages : a' = Some(LoadErrorNew(k, m))
    /\ UNCHANGED <<cmpVars, fmtVars, errVars, opVars>>

(* let b = LoadError::new(kind, message) *)
NewB ==
    /\ a # None /\ b = None /\ orig = None
    /\ \E k \in LoadErrorKind, m \in Messages : b' = Some(LoadErrorNew(k, m))
    /\ UNCHANGED <<a, cmpOut, textB, fmtVars, errVars, opVars>>

(* a == b, a != b: the comparisons the derives provide *)
Compare ==
    /\ a # None /\ b # None
    /\ \E op \in LoadErrorCmpOps :
         cmpOut' = Some([op |-> op, res |-> CmpResult(op, a[1], b[1])])
    /\ UNCHANGED <<a, b, textB, fmtVars, errVars, opVars>>

(* a.to_string(): Display of LoadError *)
FmtA ==
    /\ a # None
    /\ prevTextA = None
    /\ prevTextA' = textA
    /\ textA' = Some(LoadErrorFmt(a[1]))
    /\ UNCHANGED <<a, cmpVars, errVars, opVars>>

(* b.to_string() *)
FmtB ==
    /\ b # None
    /\ textB' = Some(LoadErrorFmt(b[1]))
    /\ UNCHANGED <<a, b, cmpOut, fmtVars, errVars, opVars>>

(* ObjError::from(a.clone()) *)
ConvertLoad ==
    /\ a # None /\ b = None /\ orig = None
    /\ orig' = a
    /\ err' = Some(FromLoadError(a[1]))
    /\ UNCHANGED <<a, cmpVars, fmtVars, textE, got, chain, opVars>>

(* ObjError::from(e) for an io::Error *)
ConvertIo ==
    /\ Fresh
    /\ \E e \in IoErrors : orig' = Some(e) /\ err' = Some(FromIoError(e))
    /\ UNCHANGED <<a, cmpVars, fmtVars, textE, got, chain, opVars>>

(* ObjError::from(e) for a ParseIntError *)
ConvertParseInt ==
    /\ Fresh
    /\ \E e \in ParseIntErrors :
         orig' = Some(e) /\ err' = Some(FromParseIntError(e))
    /\ UNCHANGED <<a, cmpVars, fmtVars, textE, got, chain, opVars>>

(* ObjError::from(e) for a ParseFloatError *)
ConvertParseFloat ==
    /\ Fresh
    /\ \E e \in ParseFloatErrors :
         orig' = Some(e) /\ err' = Some(FromParseFloatError(e))
    /\ UNCHANGED <<a, cmpVars, fmtVars, textE, got, chain, opVars>>

(* err.to_string(): Display of ObjError *)
FmtE ==
    /\ err # None
    /\ textE' = Some(ObjErrorFmt(err[1]))
    /\ UNCHANGED <<a, cmpVars, fmtVars, orig, err, got, chain, opVars>>

(* err.cause(): the first hop of a walk along the cause chain *)
Cause ==
    /\ err # None /\ got = None
    /\ got' = Some(ObjErrorCause(err[1]))
    /\ chain' = ObjErrorCause(err[1])
    /\ UNCHANGED <<a, cmpVars, fmtVars, orig, err, textE, opVars>>

(* cur.cause() on the last cause visited: the next hop, if there is one *)
Follow ==
    /\ chain # <<>> /\ Len(chain) < MaxChain
    /\ DynCause(chain[Len(chain)]) # None
    /\ chain' = Append(chain, DynCause(chain[Len(chain)])[1])
    /\ UNCHANGED <<a, cmpVars, fmtVars, orig, err, textE, got, opVars>>

(* A loader operation fn op() -> ObjResult<T> is entered. *)
Call ==
    /\ Fresh
    /\ pc' = "running"
    /\ UNCHANGED <<a, cmpVars, fmtVars, errVars, stepsDone, raised, result>>

(* One statement of its body. *)
Step ==
    /\ pc = "running" /\ stepsDone < OpSteps
    /\ stepsDone' = stepsDone + 1
    /\ UNCHANGED <<a, cmpVars, fmtVars, errVars, pc, raised, result>>

(* The body ran to its end: Ok(value). *)
Finish ==
    /\ pc = "running" /\ stepsDone = OpSteps
    /\ result' = Some([ok |-> TRUE, val |-> stepsDone])
    /\ pc' = "returned"
    /\ UNCHANGED <<a, cmpVars, fmtVars, errVars, stepsDone, raised>>

(* Faulty variant: the expansion builds the Err but does not return. *)
make_error_no_return(kind, message) ==
    /\ pc = "running"
    /\ raised = None
    /\ raised' = Some([kind |-> kind, message |-> message, at |-> stepsDone])
    /\ result' = Some([ok |-> FALSE,
                       val |-> FromLoadError(LoadErrorNew(kind, message))])
    /\ UNCHANGED <<a, cmpVars, fmtVars, errVars, pc, stepsDone>>

(* macro make_error: return Err(From::from(LoadError::new(kind, message))) *)
make_error(kind, message) ==
    /\ pc = "running"
    /\ raised' = Some([kind |-> kind, message |-> message, at |-> stepsDone])
    /\ result' = Some([ok |-> FALSE,
                       val |-> FromLoadError(LoadErrorNew(kind, message))])
    /\ pc' = "returned"
    /\ UNCHANGED <<a, cmpVars, fmtVars, errVars, stepsDone>>

(* make_error!(kind, "...") at some statement of the body *)
Raise == \E k \in LoadErrorKind, m \in Messages : make_error(k, m)

(* The values are dropped; the client starts over. *)
Drop ==
    /\ ~Fresh
    /\ a' = None /\ b' = None /\ cmpOut' = None
    /\ textA' = None /\ prevTextA' = None /\ textB' = None
    /\ orig' = None /\ err' = None /\ textE' = None /\ got' = None
    /\ chain' = <<>>
    /\ pc' = "idle" /\ stepsDone' = 0 /\ raised' = None /\ result' = None

Next ==
    \/ NewA \/ NewB \/ Compare \/ FmtA \/ FmtB
    \/ ConvertLoad \/ ConvertIo \/ ConvertParseInt \/ ConvertParseFloat
    \/ FmtE \/ Cause \/ Follow
    \/ Call \/ Step \/ Finish \/ Raise
    \/ Drop

Spec == Init /\ [][Next]_vars

--------------------------------------------------------------------------
(* The statements checked of the model.                                    *)

IsPrefix(s, t) == Len(s) <= Len(t) /\ SubSeq(t, 1, Len(s)) = s

Contains(t, s) == \E i \in 0..(Len(t) - Len(s)) : SubSeq(t, i + 1, i + Len(s)) = s

Separator == <<":", " ">>

(* The phrase table as documented for the five kinds. *)
DocPhrase(kind) ==
    CASE kind = "UnexpectedStatement" ->
           <<"M", "e", "t", " ", "u", "n", "e", "x", "p", "e", "c", "t", "e", "d", " ", "s",
      "t", "a", "t", "e", "m", "e", "n", "t">>
      [] kind = "WrongNumberOfArguments" ->
           <<"R", "e", "c", "e", "i", "v", "e", "d", " ", "w", "r", "o", "n", "g", " ", "n",
      "u", "m", "b", "e", "r", " ", "o", "f", " ", "a", "r", "g", "u", "m", "e", "n",
      "t", "s">>
      [] kind = "WrongTypeOfArguments" ->
           <<"R", "e", "c", "e", "i", "v", "e", "d", " ", "u", "n", "e", "x", "p", "e", "c",
      "t", "e", "d", " ", "t", "y", "p", "e", " ", "o", "f", " ", "a", "r", "g", "u",
      "m", "e", "n", "t", "s">>
      [] kind = "UntriangulatedModel" ->
           <<"M", "o", "d", "e", "l", " ", "s", "h", "o", "u", "l", "d", " ", "b", "e", " ",
      "t", "r", "i", "a", "n", "g", "u", "l", "a", "t", "e", "d", " ", "f", "i", "r",
      "s", "t", " ", "t", "o", " ", "b", "e", " ", "l", "o", "a", "d", "e", "d", " ",
      "p", "r", "o", "p", "e", "r", "l", "y">>
      [] kind = "InsufficientData" ->
           <<"M", "o", "d", "e", "l", " ", "c", "a", "n", "n", "o", "t", " ", "b", "e", " ",
      "t", "r", "a", "n", "s", "f", "o", "r", "m", "e", "d", " ", "i", "n", "t", "o",
      " ", "r", "e", "q", "u", "e", "s", "t", "e", "d", " ", "f", "o", "r", "m">>

(* C1: rendering LoadError::new(k, m) yields the documented phrase of k,   *)
(* then ": ", then m, for each of the five kinds and every message; and    *)
(* rendering the same value a second time yields the same text.            *)
C1_RenderIsPhraseColonMessage ==
    /\ textA # None =>
         textA[1] = DocPhrase(a[1].kind) \o Separator \o a[1].message
    /\ prevTextA # None => prevTextA = textA

C1_Witness ==
    /\ prevTextA # None /\ textA # None
    /\ a[1].kind = "InsufficientData" /\ a[1].message = MsgVertex

(* The variant a cause of each type is documented to be converted to. *)
DocVariant(type) ==
    CASE type = "io::Error" -> "Io"
      [] type = "ParseIntError" -> "ParseInt"
      [] type = "ParseFloatError" -> "ParseFloat"
      [] type = "LoadError" -> "Load"

(* C2: From maps an I/O failure to Io, an integer-parse failure to         *)
(* ParseInt, a float-parse failure to ParseFloat and a LoadError to Load,  *)
(* and the payload of the variant is the converted value, unmodified.      *)
C2_FromIsLossless ==
    err # None =>
      /\ err[1].tag = DocVariant(TypeOf(orig[1]))
      /\ err[1].payload = orig[1]

C2_Witness ==
    /\ err # None /\ err[1].tag = "Load"
    /\ orig[1] = LoadErrorNew("WrongTypeOfArguments", <<":", " ">>)

ScenarioAText ==
    <<"M", "o", "d", "e", "l", " ", "s", "h", "o", "u", "l", "d", " ", "b", "e", " ",
      "t", "r", "i", "a", "n", "g", "u", "l", "a", "t", "e", "d", " ", "f", "i", "r",
      "s", "t", " ", "t", "o", " ", "b", "e", " ", "l", "o", "a", "d", "e", "d", " ",
      "p", "r", "o", "p", "e", "r", "l", "y", ":", " ", "c", "o", "m", "p", "u", "t",
      "e", "_", "n", "o", "r", "m", "a", "l", "s", " ", "r", "e", "q", "u", "i", "r",
      "e", "s", " ", "t", "r", "i", "a", "n", "g", "l", "e", "s">>

(* C3: the text of an ObjError is exactly the text of the cause it wraps,  *)
(* with nothing added; a LoadError(UntriangulatedModel, "compute_normals   *)
(* requires triangles") converted to ObjError renders as the documented    *)
(* line, and a converted float-parse failure is variant ParseFloat and     *)
(* renders as the failure's own message.                                   *)
C3_DisplayDelegates ==
    textE # None =>
      /\ textE[1] = DynFmt(orig[1])
      /\ orig[1] = LoadErrorNew("UntriangulatedModel", MsgComputeNormals)
           => textE[1] = ScenarioAText
      /\ TypeOf(orig[1]) = "ParseFloatError"
           => err[1].tag = "ParseFloat" /\ textE[1] = orig[1].text

C3_Witness ==
    /\ textE # None
    /\ orig[1] = LoadErrorNew("UntriangulatedModel", MsgComputeNormals)

(* C4: for every variant the cause accessor of an ObjError returns Some,   *)
(* and what it refers to is the value that was converted.                  *)
C4_CauseIsWrappedValue ==
    got # None => got[1] # None /\ got[1][1] = orig[1]

C4_Witness ==
    /\ got # None /\ err[1].tag = "Load"
    /\ orig[1].kind = "UnexpectedStatement"

(* C5: two LoadErrors are equal iff their kinds are equal and their        *)
(* messages are equal; a difference in the kind alone or in the message    *)
(* alone makes them unequal, as for (WrongNumberOfArguments, "face") and   *)
(* (WrongNumberOfArguments, "vertex").                                     *)
C5_EqIsStructural ==
    (cmpOut # None /\ cmpOut[1].op = "eq") =>
      /\ cmpOut[1].res <=> (a[1].kind = b[1].kind /\ a[1].message = b[1].message)
      /\ (a[1].kind # b[1].kind /\ a[1].message = b[1].message) => ~cmpOut[1].res
      /\ (a[1].kind = b[1].kind /\ a[1].message # b[1].message) => ~cmpOut[1].res
      /\ (/\ a[1] = LoadErrorNew("WrongNumberOfArguments", MsgFace)
          /\ b[1] = LoadErrorNew("WrongNumberOfArguments", MsgVertex))
           => ~cmpOut[1].res

C5_Witness ==
    /\ cmpOut # None /\ cmpOut[1].op = "eq"
    /\ a[1] = LoadErrorNew("WrongNumberOfArguments", MsgFace)
    /\ b[1] = LoadErrorNew("WrongNumberOfArguments", MsgVertex)

(* C6: make_error!(k, m) ends the enclosing operation at once with         *)
(* Err(ObjError::Load(LoadError::new(k, m))): no later step of the         *)
(* operation runs and no success value is produced.                        *)
C6_RaiseReturnsLoadError ==
    raised # None =>
      /\ pc = "returned"
      /\ stepsDone = raised[1].at
      /\ result # None /\ ~result[1].ok
      /\ result[1].val.tag = "Load"
      /\ result[1].val.payload = LoadErrorNew(raised[1].kind, raised[1].message)

C6_Witness ==
    /\ raised # None /\ raised[1].at = 1
    /\ raised[1].kind = "WrongNumberOfArguments" /\ raised[1].message = MsgFace

(* The ObjError values the client holds. *)
HeldObjErrors ==
    {e[1] : e \in {x \in {err} : x # None}}
      \cup {r[1].val : r \in {x \in {result} : x # None /\ ~x[1].ok}}

(* C7: every ObjError matches exactly one of Io, ParseInt, ParseFloat,     *)
(* Load, the variant determines the type of the cause held, and ObjErrors  *)
(* built from causes of different types are in different variants.         *)
C7_VariantsDisjoint ==
    /\ \A e \in HeldObjErrors :
         /\ Cardinality({v \in ObjErrorVariants : e.tag = v}) = 1
         /\ TypeOf(e.payload) = VariantPayloadType(e.tag)
    /\ err # None =>
         \A v \in ObjErrorVariants :
           (err[1].tag = v) <=> (TypeOf(orig[1]) = VariantPayloadType(v))

C7_Witness ==
    err # None /\ err[1].tag = "ParseFloat" /\ TypeOf(orig[1]) = "ParseFloatError"

(* C8, as stated: LoadError values have an ordering, so an ordering        *)
(* comparison is among those a client holding two values can make.         *)
C8_HasOrdering ==
    (a # None /\ b # None) => "partial_cmp" \in LoadErrorCmpOps

(* C8, amended: LoadError has equality and inequality, structural over     *)
(* (kind, message), and no ordering: the only comparisons it provides are  *)
(* eq and ne.                                                              *)
C8_EqualityOnly ==
    /\ LoadErrorCmpOps = {"eq", "ne"}
    /\ cmpOut # None =>
         /\ cmpOut[1].op \in {"eq", "ne"}
         /\ cmpOut[1].op = "ne" =>
              (cmpOut[1].res <=> (a[1].kind # b[1].kind \/ a[1].message # b[1].message))

C8_Witness ==
    /\ cmpOut # None /\ cmpOut[1].op = "ne" /\ cmpOut[1].res
    /\ a[1].kind # b[1].kind /\ a[1].message = b[1].message

(* C9, as stated: the chain from any ObjError is one hop deep: the         *)
(* accessor returns the wrapped cause and that cause has none.             *)
C9_OneHop ==
    got # None => Len(chain) = 1 /\ DynCause(chain[1]) = None

(* C9, amended: the accessor returns the wrapped cause; for Load,          *)
(* ParseInt and ParseFloat the wrapped cause has no cause of its own, so   *)
(* the chain is one hop deep; for Io the walk goes on exactly when the     *)
(* io::Error itself reports a cause.                                       *)
C9_OneHopUnlessIoHasCause ==
    got # None =>
      /\ chain # <<>> /\ chain[1] = err[1].payload
      /\ err[1].tag = "Load" => LoadErrorCause(chain[1]) = None
      /\ err[1].tag # "Io" => Len(chain) = 1 /\ DynCause(chain[1]) = None
      /\ Len(chain) > 1 => err[1].tag = "Io" /\ chain[2] = orig[1].source[1]

C9_Witness ==
    got # None /\ err[1].tag = "Load" /\ Len(chain) = 1

DisplayedPhrases == {KindMsg(k) : k \in LoadErrorKind}

(* C10: the five phrases are pairwise distinct, none contains ": " and     *)
(* none is a prefix of another, so two LoadErrors with the same text have  *)
(* the same kind and message, and the text of an ObjError::Load            *)
(* identifies its kind.                                                    *)
C10_RenderInjective ==
    /\ Cardinality(DisplayedPhrases) = Cardinality(LoadErrorKind)
    /\ \A p \in DisplayedPhrases : ~Contains(p, Separator)
    /\ \A p, q \in DisplayedPhrases : IsPrefix(p, q) => p = q
    /\ (textA # None /\ textB # None /\ textA = textB) => a = b
    /\ (textE # None /\ err[1].tag = "Load") =>
         \A k \in LoadErrorKind :
           IsPrefix(KindMsg(k) \o Separator, textE[1]) => k = err[1].payload.kind

C10_Witness ==
    /\ textA # None /\ textB # None
    /\ a[1].kind # b[1].kind /\ a[1].message = <<":", " ">> /\ b[1].message = <<" ", ":">>

==========================================================================
